---- MODULE Spec2Model ----
(***************************************************************************)
(* Session manager, history engine and local persistence of the room      *)
(* designer (src/App.tsx, src/services/storageService.ts).                *)
(*                                                                         *)
(* Every React state cell of App is a variable.  A handler is one action;  *)
(* a handler that awaits (image upload, generation, save) is split at its  *)
(* await: the first action records what the closure captured, the second   *)
(* is the continuation, which reads the captured values as the code does.  *)
(* Sequences are 1-based; historyIndex keeps the source's 0-based values   *)
(* (-1 .. length-1).                                                       *)
(***************************************************************************)
EXTENDS Integers, Sequences, FiniteSets, TLC

VARIABLES
    sessions,            \* useState<DesignSession[]>          App.tsx:55
    activeSessionId,     \* useState<string | null>            App.tsx:56
    sceneImage,          \* useState<File | null>              App.tsx:60
    productImage,        \* App.tsx:61
    sketchedImage,       \* App.tsx:62
    history,             \* useState<File[]>                   App.tsx:63
    historyIndex,        \* useState<number>(-1)               App.tsx:64
    prompt,              \* App.tsx:65
    originalDimensions,  \* App.tsx:66
    isLoading,           \* App.tsx:69
    error,               \* App.tsx:70
    isSceneryModalOpen,  \* App.tsx:78
    drawing,             \* DrawingModal's refs and canvas         App.tsx:557-560
    store,               \* localStorage[SESSIONS_STORAGE_KEY]
    loaded,              \* the mount effect's load has resolved
    saves,               \* snapshots handed to saveSessionsToLocalStorage, not yet written
    uploads,             \* handleSceneImageUpload calls awaiting dimensions / FileReader
    requests,            \* generation / rotate requests awaiting the remote call
    clock,               \* the value Date.now() last returned
    nextGen,             \* number of requests sent to the remote model
    budget,              \* user events still to come in this run
    persisting,          \* the run follows the writes to the store
    geometry,            \* one image on its way through redesignRoom (geminiService.ts)
    lastOp               \* the handler or continuation that ran last

vars == <<sessions, activeSessionId, sceneImage, productImage, sketchedImage,
          history, historyIndex, prompt, originalDimensions, isLoading, error,
          store, loaded, saves, uploads, requests, clock, nextGen, budget,
          persisting, geometry, isSceneryModalOpen, drawing, lastOp>>

working == <<sceneImage, productImage, sketchedImage, history, historyIndex,
             prompt, originalDimensions, isLoading, error>>

----------------------------------------------------------------------------
(* Bounds of the model: the number of user events (clicks, key presses,     *)
(* file selections) in one run.  Continuations of awaits are not counted:    *)
(* there is at most one per await started.                                   *)

MaxEvents == 4         \* in the runs that follow App's state only
MaxStoreEvents == 3    \* in the runs that also follow the writes to the store
MaxGeometryEvents == 4 \* in the runs that follow one image through redesignRoom
MaxDimension == 4      \* widths and heights of the original image: 0..MaxDimension
MaxDrawingEvents == 6  \* in the runs that follow the sketch canvas

----------------------------------------------------------------------------
(* Values *)

NoId == 0                                   \* activeSessionId === null
NoFile == [name |-> "", type |-> "", data |-> <<>>]   \* a null File
NoDimensions == [width |-> 0, height |-> 0]           \* originalDimensions === null
NoError == ""                                         \* error === null

MissingDataError == "Missing project data. Please ensure an image is uploaded."
DimensionsError == "Could not read image dimensions. Please try a different image."
GenerateError == "Failed to generate the image."
RotateError == "Failed to generate the rotated view."
RotateMissingError == "A generated image must exist to create a rotated view."
SampleError == "Could not load default image."

Prompts == {"", "Add a modern pergola"}
SceneryPrompt == "Golden hour lighting, warm sunset, long soft shadows, cozy atmosphere"
SamplePrompt == "Add a modern stone pathway, plant vibrant flowerbeds along the front, and add a large oak tree on the right."

\* File contents are byte sequences
RoomPhoto == [name |-> "room.jpg", type |-> "image/jpeg", data |-> <<255, 216, 1>>]
TextFile == [name |-> "notes.txt", type |-> "text/plain", data |-> <<104, 105>>]
UploadFiles == {RoomPhoto, TextFile}
\* new File([blob], 'exterior.jpeg', { type: 'image/jpeg' }) of the sample
SampleFile == [name |-> "exterior.jpeg", type |-> "image/jpeg", data |-> <<255, 216, 2>>]

SketchFile == [name |-> "sketch.png", type |-> "image/png", data |-> <<137, 80, 78, 71>>]
ProductFile == [name |-> "product.png", type |-> "image/png", data |-> <<137, 80>>]

IsImage(f) == f.type \in {"image/jpeg", "image/png", "image/webp"}

\* getImageDimensions resolves with the intrinsic size of an image file
ImageDimensions(f) ==
    IF f.name = "room.jpg" THEN [width |-> 1600, height |-> 900]
    ELSE [width |-> 900, height |-> 1600]

GeneratedFile(n) ==
    [name |-> "generated-scene.jpeg", type |-> "image/jpeg", data |-> <<255, 216, 10 + n>>]
RotatedFile(n) ==
    [name |-> "rotated-scene.jpeg", type |-> "image/jpeg", data |-> <<255, 216, 10 + n>>]

----------------------------------------------------------------------------
(* geminiService.ts: the geometry of padding, marking and cropping.          *)
(* Lengths are rational numbers n/d in lowest terms (JavaScript computes     *)
(* them in doubles); d = 0 stands for NaN.                                   *)

RECURSIVE GCD(_, _)
GCD(a, b) == IF b = 0 THEN a ELSE GCD(b, a % b)

NaN == [n |-> 0, d |-> 0]

Rat(n, d) ==
    IF d = 0 THEN NaN
    ELSE LET g == GCD(IF n < 0 THEN -n ELSE n, d) IN
         [n |-> (IF n < 0 THEN -((-n) \div g) ELSE n \div g), d |-> d \div g]

Whole(k) == Rat(k, 1)
Plus(a, b) == IF a.d = 0 \/ b.d = 0 THEN NaN ELSE Rat(a.n * b.d + b.n * a.d, a.d * b.d)
Minus(a, b) == IF a.d = 0 \/ b.d = 0 THEN NaN ELSE Rat(a.n * b.d - b.n * a.d, a.d * b.d)
Times(a, b) == IF a.d = 0 \/ b.d = 0 THEN NaN ELSE Rat(a.n * b.n, a.d * b.d)
Half(a) == Times(a, Rat(1, 2))
\* a / b for b >= 0; 0 / 0 is NaN (no caller divides anything else by 0)
Over(a, b) == IF a.d = 0 \/ b.d = 0 \/ b.n = 0 THEN NaN ELSE Rat(a.n * b.d, a.d * b.n)
\* a < b; every comparison with NaN is false
Less(a, b) == a.d # 0 /\ b.d # 0 /\ a.n * b.d < b.n * a.d

\* canvas.width = value: the value is truncated to whole pixels, NaN to 0
Trunc(a) == IF a.d = 0 \/ a.n < 0 THEN 0 ELSE a.n \div a.d

MAX_DIMENSION == 1024

\* the square sizes the geometry is followed for
SquareSizes == {MAX_DIMENSION, 10}

\* The content area of a w x h image inside the square: the source computes
\* aspectRatio = w / h and branches on aspectRatio > 1.  For h = 0 < w the
\* ratio is Infinity (first branch, S / Infinity = 0), for w = h = 0 it is NaN
\* (second branch, S * NaN).
ContentSize(w, h, S) ==
    IF w > h
    THEN [w |-> Whole(S), h |-> Rat(S * h, w)]
    ELSE [w |-> Rat(S * w, h), h |-> Whole(S)]

\* the content area centred in the square
Centered(size, S) ==
    [set |-> TRUE,
     x |-> Half(Minus(Whole(S), size.w)), y |-> Half(Minus(Whole(S), size.h)),
     w |-> size.w, h |-> size.h]

NoRect == [set |-> FALSE, x |-> NaN, y |-> NaN, w |-> NaN, h |-> NaN]
NoPoint == [set |-> FALSE, x |-> NaN, y |-> NaN]

\* resizeImage: where the submitted image (img.width x img.height) is drawn
ResizeRect(image, S) == Centered(ContentSize(image.w, image.h, S), S)

\* cropToOriginalAspectRatio: the rectangle taken out of the generated square
CropRect(originalWidth, originalHeight, S) ==
    Centered(ContentSize(originalWidth, originalHeight, S), S)

\* (variant) the marker is placed without the offsets of the content area
MarkerPointNoOffset(originalWidth, originalHeight, S, dropCoordinates) ==
    LET content == ContentSize(originalWidth, originalHeight, S) IN
    [set |-> TRUE,
     x |-> Times(dropCoordinates.x, content.w),
     y |-> Times(dropCoordinates.y, content.h)]

\* (variant) the relative point is scaled by the square, not by the content
MarkerPointOfSquare(originalWidth, originalHeight, S, dropCoordinates) ==
    [set |-> TRUE,
     x |-> Times(dropCoordinates.x, Whole(S)),
     y |-> Times(dropCoordinates.y, Whole(S))]

\* redesignRoom: the absolute marker position on the padded square
MarkerPoint(originalWidth, originalHeight, S, dropCoordinates) ==
    LET content == ContentSize(originalWidth, originalHeight, S) IN
    [set |-> TRUE,
     x |-> Plus(Half(Minus(Whole(S), content.w)), Times(dropCoordinates.x, content.w)),
     y |-> Plus(Half(Minus(Whole(S), content.h)), Times(dropCoordinates.y, content.h))]

\* the pixel size of the canvas cropToOriginalAspectRatio returns
CroppedSize(rect) == [w |-> Trunc(rect.w), h |-> Trunc(rect.h)]

\* DrawingModal: the canvas fitted into its container, which the sketch is
\* saved from (width / aspectRatio is Infinity for a 0 x h image)
DrawingContainer == [w |-> 7, h |-> 5]

SketchSize(image, container) ==
    IF image.w = 0 /\ image.h = 0 THEN [w |-> container.w, h |-> 0]
    ELSE IF image.w = 0 THEN [w |-> 0, h |-> container.h]
    ELSE IF container.w * image.h > container.h * image.w
    THEN [w |-> (container.h * image.w) \div image.h, h |-> container.h]
    ELSE [w |-> container.w, h |-> (container.w * image.h) \div image.w]

\* handleSceneDrop: the box of the <img> element and the drop positions in it
\* (clientX - rect.left, clientY - rect.top)
DisplayBox == [w |-> 160, h |-> 120]
DropPoints ==
    {[x |-> cx, y |-> cy] : cx \in {0, 80, 160}, cy \in {0, 60, 120}}
        \cup {[x |-> 16, y |-> 24]}

\* the displayed content rectangle of a natural.w x natural.h image in the box
DisplayedContent(natural, rect) ==
    IF natural.w * rect.h > rect.w * natural.h
    THEN [w |-> Whole(rect.w), h |-> Rat(rect.w * natural.h, natural.w),
          offsetX |-> Whole(0),
          offsetY |-> Half(Minus(Whole(rect.h), Rat(rect.w * natural.h, natural.w)))]
    ELSE [w |-> Rat(rect.h * natural.w, natural.h), h |-> Whole(rect.h),
          offsetX |-> Half(Minus(Whole(rect.w), Rat(rect.h * natural.w, natural.h))),
          offsetY |-> Whole(0)]

\* x and y of handleSceneDrop: the position relative to the content rectangle
DropOffset(p, natural, rect) ==
    LET content == DisplayedContent(natural, rect) IN
    [x |-> Minus(Whole(p.x), content.offsetX),
     y |-> Minus(Whole(p.y), content.offsetY)]

\* x < 0 || x > contentWidth || y < 0 || y > contentHeight
DropOutOfBounds(p, natural, rect) ==
    LET content == DisplayedContent(natural, rect)
        at == DropOffset(p, natural, rect)
    IN  \/ Less(at.x, Whole(0))
        \/ Less(content.w, at.x)
        \/ Less(at.y, Whole(0))
        \/ Less(content.h, at.y)

RelativeDrop(p, natural, rect) ==
    LET content == DisplayedContent(natural, rect)
        at == DropOffset(p, natural, rect)
    IN  [set |-> TRUE, x |-> Over(at.x, content.w), y |-> Over(at.y, content.h)]

\* no image is on its way
NoGeometry ==
    [originalWidth |-> 0, originalHeight |-> 0, S |-> 0, image |-> [w |-> 0, h |-> 0],
     productImage |-> FALSE, dropCoordinates |-> NoPoint,
     padded |-> NoRect, marker |-> NoPoint, cropped |-> NoRect, step |-> "idle"]

----------------------------------------------------------------------------
(* DrawingModal: the sketch canvas and its undo history.  A snapshot         *)
(* (ImageData) is the content of the canvas, named by the number of the      *)
(* stroke that produced it; 0 is the background image alone.                 *)

\* useRef<ImageData[]>([]), useRef<number>(-1), an empty canvas
NoDrawing ==
    [history |-> <<>>, historyIndex |-> -1, canvas |-> -1, strokes |-> 0,
     initialised |-> FALSE]

\* history.current.splice(start): everything from position start on is removed
Splice(h, start) == SubSeq(h, 1, IF start < Len(h) THEN start ELSE Len(h))

\* (variant) the snapshot is pushed without the splice
SaveToHistoryKeepingTail(d) ==
    [d EXCEPT !.history = Append(d.history, d.canvas),
              !.historyIndex = Len(d.history)]

\* saveToHistory: getImageData, splice(historyIndex + 1), push, index = length - 1
SaveToHistory(d) ==
    [d EXCEPT !.history = Append(Splice(d.history, d.historyIndex + 1), d.canvas),
              !.historyIndex = Len(Splice(d.history, d.historyIndex + 1))]

\* restoreFromHistory: putImageData(history[historyIndex]) if there is a history
RestoreFromHistory(d) ==
    IF Len(d.history) > 0 /\ d.historyIndex >= 0 /\ d.historyIndex < Len(d.history)
    THEN [d EXCEPT !.canvas = d.history[d.historyIndex + 1]]
    ELSE d

----------------------------------------------------------------------------
(* storageService.ts: serialization *)

\* A data URL "data:<mime>;base64,<body>" is kept as its parts: the media type
\* the pattern /:(.*?);/ finds in front of the first comma ("" when it finds
\* none), whether there is a comma, and the base64 digits behind it (values
\* 0..63, Pad for "=", anything else for a character outside the alphabet).
Pad == 64

RECURSIVE Base64(_)
\* FileReader.readAsDataURL: three bytes become four digits, the tail is padded
Base64(bytes) ==
    IF Len(bytes) = 0 THEN <<>>
    ELSE IF Len(bytes) = 1
    THEN <<bytes[1] \div 4, (bytes[1] % 4) * 16, Pad, Pad>>
    ELSE IF Len(bytes) = 2
    THEN <<bytes[1] \div 4, (bytes[1] % 4) * 16 + bytes[2] \div 16,
           (bytes[2] % 16) * 4, Pad>>
    ELSE <<bytes[1] \div 4, (bytes[1] % 4) * 16 + bytes[2] \div 16,
           (bytes[2] % 16) * 4 + bytes[3] \div 64, bytes[3] % 64>>
         \o Base64(SubSeq(bytes, 4, Len(bytes)))

\* atob throws on a character outside the alphabet, on padding that is not at
\* the end and on a length that leaves one digit over
AtobValid(digits) ==
    /\ Len(digits) % 4 = 0
    /\ \A i \in 1..Len(digits) :
          \/ digits[i] \in 0..63
          \/ digits[i] = Pad /\ i > Len(digits) - 2
                             /\ \A j \in (i + 1)..Len(digits) : digits[j] = Pad

\* (variant) a padded group is decoded like a full one
RECURSIVE AtobWholeGroups(_)
AtobWholeGroups(digits) ==
    IF Len(digits) < 4 THEN <<>>
    ELSE <<digits[1] * 4 + digits[2] \div 16,
           (digits[2] % 16) * 16 + (digits[3] % 64) \div 4,
           (digits[3] % 4) * 64 + (digits[4] % 64)>>
         \o AtobWholeGroups(SubSeq(digits, 5, Len(digits)))

RECURSIVE Atob(_)
\* atob followed by the charCodeAt loop: the bytes the digits stand for
Atob(digits) ==
    IF Len(digits) < 4 THEN <<>>
    ELSE (IF digits[3] = Pad
          THEN <<digits[1] * 4 + digits[2] \div 16>>
          ELSE IF digits[4] = Pad
          THEN <<digits[1] * 4 + digits[2] \div 16,
                 (digits[2] % 16) * 16 + digits[3] \div 4>>
          ELSE <<digits[1] * 4 + digits[2] \div 16,
                 (digits[2] % 16) * 16 + digits[3] \div 4,
                 (digits[3] % 4) * 64 + digits[4]>>)
         \o Atob(SubSeq(digits, 5, Len(digits)))

\* a file without a type is read as application/octet-stream
FileToDataUrl(f) ==
    [mime |-> IF f.type = "" THEN "application/octet-stream" ELSE f.type,
     comma |-> TRUE,
     body |-> Base64(f.data)]

\* dataURLtoFile returns (does not throw)
DataURLValid(dataurl) == dataurl.comma /\ dataurl.mime # "" /\ AtobValid(dataurl.body)

DataURLtoFile(dataurl, filename) ==
    [name |-> filename, type |-> dataurl.mime, data |-> Atob(dataurl.body)]

FileToSerializable(f) == [name |-> f.name, type |-> f.type, dataUrl |-> FileToDataUrl(f)]

SerializableToFile(sf) == DataURLtoFile(sf.dataUrl, sf.name)

SessionToSerializable(s) ==
    [id |-> s.id, name |-> s.name, timestamp |-> s.timestamp,
     thumbnail |-> s.thumbnail, originalDimensions |-> s.originalDimensions,
     sceneImage |-> FileToSerializable(s.sceneImage),
     generations |-> [i \in 1..Len(s.generations) |-> FileToSerializable(s.generations[i])]]

SerializableToSession(ss) ==
    [id |-> ss.id, name |-> ss.name, timestamp |-> ss.timestamp,
     thumbnail |-> ss.thumbnail, originalDimensions |-> ss.originalDimensions,
     sceneImage |-> SerializableToFile(ss.sceneImage),
     generations |-> [i \in 1..Len(ss.generations) |-> SerializableToFile(ss.generations[i])]]

SerializeAll(ss) == [i \in 1..Len(ss) |-> SessionToSerializable(ss[i])]
DeserializeAll(blob) == [i \in 1..Len(blob) |-> SerializableToSession(blob[i])]

\* serializableToSession returns for every element of the parsed array
AllDecodable(blob) ==
    \A i \in 1..Len(blob) :
        /\ DataURLValid(blob[i].sceneImage.dataUrl)
        /\ \A k \in 1..Len(blob[i].generations) :
              DataURLValid(blob[i].generations[k].dataUrl)

\* The entry of the store under SESSIONS_STORAGE_KEY: absent (getItem returns
\* null) or a string, which is the JSON text of an array ("array", the array
\* kept in `sessions`), the empty string ("empty"), a text JSON.parse rejects
\* ("malformed") or the JSON text of something else, such as null or an
\* object ("value").
NoBlob == [present |-> FALSE, json |-> "", sessions |-> <<>>]
Blob(ss) == [present |-> TRUE, json |-> "array", sessions |-> SerializeAll(ss)]
RawBlob(json, blob) == [present |-> TRUE, json |-> json, sessions |-> blob]

\* loadSessionsFromLocalStorage: what it returns and what it leaves in the store
LoadSessionsFromLocalStorage(st) ==
    IF ~st.present \/ st.json = "empty"
    THEN [sessions |-> <<>>, store |-> st]
    ELSE IF st.json = "array" /\ AllDecodable(st.sessions)
    THEN [sessions |-> DeserializeAll(st.sessions), store |-> st]
    ELSE [sessions |-> <<>>, store |-> NoBlob]

\* Projects an earlier run of the program left in the store, newest first.
StoredSession(id, n, gens) ==
    [id |-> id, name |-> n, timestamp |-> id,
     thumbnail |-> FileToDataUrl(RoomPhoto), sceneImage |-> RoomPhoto,
     originalDimensions |-> ImageDimensions(RoomPhoto),
     generations |-> gens]

EarlierRun ==
    << StoredSession(2, 2, <<>>),
       StoredSession(1, 1, <<GeneratedFile(-1), GeneratedFile(-2), GeneratedFile(-3)>>) >>

InitialStores == {NoBlob, Blob(EarlierRun)}

----------------------------------------------------------------------------
(* Helpers over the project collection *)

\* sessions.find(s => s.id === sessionId): index of the first match, 0 if none
FindSession(ss, id) ==
    IF \E i \in 1..Len(ss) : ss[i].id = id
    THEN CHOOSE i \in 1..Len(ss) : ss[i].id = id /\ \A j \in 1..(i-1) : ss[j].id # id
    ELSE 0

\* (variant) the filter's test inverted
FilterSessionsKeepOnly(ss, id) == SelectSeq(ss, LAMBDA s : s.id = id)

\* sessions.filter(s => s.id !== sessionId)
FilterSessions(ss, id) == SelectSeq(ss, LAMBDA s : s.id # id)

\* (variant) the update of the stored generations is dropped
SetGenerationsDropped(ss, id, gens) == ss

\* (variant) the newest generation also replaces the project's scene image
SetGenerationsAndScene(ss, id, gens) ==
    [i \in 1..Len(ss) |->
        IF ss[i].id = id
        THEN [ss[i] EXCEPT !.generations = gens,
                           !.sceneImage = IF Len(gens) > 0 THEN gens[Len(gens)] ELSE @]
        ELSE ss[i]]

\* sessions.map(s => s.id === id ? {...s, generations} : s)
SetGenerations(ss, id, gens) ==
    [i \in 1..Len(ss) |-> IF ss[i].id = id THEN [ss[i] EXCEPT !.generations = gens] ELSE ss[i]]

\* history[historyIndex] ?? null
CurrentGeneratedImage(h, idx) == IF idx >= 0 /\ idx < Len(h) THEN h[idx + 1] ELSE NoFile

\* history.slice(0, historyIndex + 1) followed by push(newImage)
AddImageToHistory(h, idx, newImage) == Append(SubSeq(h, 1, idx + 1), newImage)

\* the save effect: runs after every render in which `sessions` is a new
\* array.  App never reads the store after the mount effect, so the runs that
\* follow App's state only leave the pending writes out.
SaveSessions(ss) ==
    saves' = IF persisting /\ Len(ss) > 0 THEN saves \cup {ss} ELSE saves

----------------------------------------------------------------------------
(* Initial state: App's useState initialisers, before the mount effect *)

InitClock == Len(EarlierRun)     \* the earlier run's last timestamp

Init ==
    /\ sessions = <<>>
    /\ activeSessionId = NoId
    /\ sceneImage = NoFile
    /\ productImage = NoFile
    /\ sketchedImage = NoFile
    /\ history = <<>>
    /\ historyIndex = -1
    /\ prompt = ""
    /\ originalDimensions = NoDimensions
    /\ isLoading = FALSE
    /\ error = NoError
    /\ store \in InitialStores
    /\ loaded = FALSE
    /\ saves = {}
    /\ uploads = {}
    /\ requests = {}
    /\ clock = InitClock
    /\ nextGen = 0
    /\ budget = MaxEvents
    /\ persisting = FALSE
    /\ geometry = NoGeometry
    /\ isSceneryModalOpen = FALSE
    /\ drawing = NoDrawing
    /\ lastOp = "init"

\* the ids a caller can pass: those of the listed projects, and one that is
\* not (or no longer) in the collection
SessionIds == {sessions[i].id : i \in 1..Len(sessions)} \cup {clock + 1}

\* a user event
Event(op) ==
    /\ budget > 0 /\ budget' = budget - 1 /\ lastOp' = op
    /\ UNCHANGED <<persisting, geometry, drawing>>

\* a handler run from a user event
User(op) == Event(op) /\ UNCHANGED isSceneryModalOpen

\* a continuation run from the task queue
Async(op) ==
    lastOp' = op /\ UNCHANGED <<budget, persisting, geometry, isSceneryModalOpen, drawing>>

\* Date.now() in a continuation: when the task before it was another
\* thumbnailReader.onload the two may run within the same millisecond
Now == IF lastOp = "createProject" THEN {clock, clock + 1} ELSE {clock + 1}

\* the toolbar (Sketch, Add Product, Undo, Redo, Revert) is rendered
ToolbarShown == Len(history) > 0 \/ sketchedImage # NoFile \/ sceneImage # NoFile

----------------------------------------------------------------------------
(* Session manager *)

ClearWorkingState ==
    /\ sceneImage' = NoFile
    /\ productImage' = NoFile
    /\ sketchedImage' = NoFile
    /\ history' = <<>>
    /\ historyIndex' = -1
    /\ prompt' = ""
    /\ error' = NoError
    /\ isLoading' = FALSE
    /\ originalDimensions' = NoDimensions

\* (variant) a selected project is shown at its original image
SelectSessionAtOriginal(ss, sessionId) ==
    LET i == FindSession(ss, sessionId) IN
    IF i # 0
    THEN /\ sceneImage' = ss[i].sceneImage
         /\ originalDimensions' = ss[i].originalDimensions
         /\ history' = ss[i].generations
         /\ historyIndex' = -1
         /\ activeSessionId' = ss[i].id
         /\ productImage' = NoFile
         /\ sketchedImage' = NoFile
         /\ prompt' = ""
         /\ error' = NoError
         /\ isLoading' = FALSE
    ELSE UNCHANGED <<working, activeSessionId>>

\* (variant) an unknown id falls back to the empty workspace
SelectSessionOrReset(ss, sessionId) ==
    LET i == FindSession(ss, sessionId) IN
    IF i # 0
    THEN /\ sceneImage' = ss[i].sceneImage
         /\ originalDimensions' = ss[i].originalDimensions
         /\ history' = ss[i].generations
         /\ historyIndex' = Len(ss[i].generations) - 1
         /\ activeSessionId' = ss[i].id
         /\ productImage' = NoFile
         /\ sketchedImage' = NoFile
         /\ prompt' = ""
         /\ error' = NoError
         /\ isLoading' = FALSE
    ELSE ClearWorkingState /\ activeSessionId' = NoId

\* handleSelectSession as created by a render whose `sessions` was ss
SelectSession(ss, sessionId) ==
    LET i == FindSession(ss, sessionId) IN
    IF i # 0
    THEN /\ sceneImage' = ss[i].sceneImage
         /\ originalDimensions' = ss[i].originalDimensions
         /\ history' = ss[i].generations
         /\ historyIndex' = Len(ss[i].generations) - 1
         /\ activeSessionId' = ss[i].id
         /\ productImage' = NoFile
         /\ sketchedImage' = NoFile
         /\ prompt' = ""
         /\ error' = NoError
         /\ isLoading' = FALSE
    ELSE UNCHANGED <<working, activeSessionId>>

\* The mount effect: loadSessionsFromLocalStorage().then(...).  The promise
\* resolves in a microtask, before any user event, and its callback holds the
\* handleSelectSession of the first render, whose `sessions` is [].
LoadSessions ==
    /\ ~loaded
    /\ loaded' = TRUE
    /\ store' = LoadSessionsFromLocalStorage(store).store
    /\ LET loadedSessions == LoadSessionsFromLocalStorage(store).sessions IN
       /\ sessions' = loadedSessions
       /\ IF Len(loadedSessions) > 0
          THEN SelectSession(<<>>, loadedSessions[1].id)
          ELSE UNCHANGED <<working, activeSessionId>>
       /\ SaveSessions(loadedSessions)
    /\ Async("load")
    /\ UNCHANGED <<uploads, requests, clock, nextGen>>

HandleNewProject ==
    /\ loaded
    /\ ClearWorkingState
    /\ activeSessionId' = NoId
    /\ User("newProject")
    /\ UNCHANGED <<sessions, store, loaded, saves, uploads, requests, clock, nextGen>>

HandleSelectSession(sessionId) ==
    /\ loaded
    /\ SelectSession(sessions, sessionId)
    /\ User("selectSession")
    /\ UNCHANGED <<sessions, store, loaded, saves, uploads, requests, clock, nextGen>>

HandleDeleteSession(sessionId) ==
    /\ loaded
    /\ sessions' = FilterSessions(sessions, sessionId)
    /\ IF activeSessionId = sessionId
       THEN LET remainingSessions == FilterSessions(sessions, sessionId) IN
            IF Len(remainingSessions) > 0
            THEN SelectSession(sessions, remainingSessions[1].id)
            ELSE ClearWorkingState /\ activeSessionId' = NoId
       ELSE UNCHANGED <<working, activeSessionId>>
    /\ SaveSessions(FilterSessions(sessions, sessionId))
    /\ User("deleteSession")
    /\ UNCHANGED <<store, loaded, uploads, requests, clock, nextGen>>

\* handleSceneImageUpload up to its await; the uploader is disabled while
\* isLoading or while a project is active
HandleSceneImageUpload(file) ==
    /\ loaded
    /\ ~isLoading /\ activeSessionId = NoId
    /\ uploads' = uploads \cup {[file |-> file, count |-> Len(sessions),
                                 call |-> Cardinality(uploads) + 1, stage |-> "read"]}
    /\ User("upload")
    /\ UNCHANGED <<sessions, activeSessionId, working, store, loaded, saves, requests,
                   clock, nextGen>>

\* (variant) the new project is put last
AddSessionAtEnd(newSession, ss) == ss \o <<newSession>>

\* setSessions(prev => [newSession, ...prev])
AddSession(newSession, ss) == <<newSession>> \o ss

NewSession(t, u) ==
    [id |-> t, name |-> u.count + 1, timestamp |-> t,
     thumbnail |-> FileToDataUrl(u.file), sceneImage |-> u.file,
     originalDimensions |-> ImageDimensions(u.file), generations |-> <<>>]

\* thumbnailReader.onload: the project is created
UploadLoaded(u) ==
    /\ u \in uploads /\ u.stage = "read" /\ IsImage(u.file)
    /\ uploads' = uploads \ {u}
    /\ \E t \in Now :
        /\ clock' = t
        /\ sessions' = AddSession(NewSession(t, u), sessions)
        /\ activeSessionId' = NewSession(t, u).id
        /\ SaveSessions(AddSession(NewSession(t, u), sessions))
    /\ sceneImage' = u.file
    /\ originalDimensions' = ImageDimensions(u.file)
    /\ history' = <<>>
    /\ historyIndex' = -1
    /\ prompt' = ""
    /\ sketchedImage' = NoFile
    /\ productImage' = NoFile
    /\ error' = NoError
    /\ Async("createProject")
    /\ UNCHANGED <<isLoading, store, loaded, requests, nextGen>>

\* getImageDimensions rejects: the catch branch
UploadRejected(u) ==
    /\ u \in uploads /\ u.stage = "read" /\ ~IsImage(u.file)
    /\ uploads' = uploads \ {u}
    /\ error' = DimensionsError
    /\ Async("uploadRejected")
    /\ UNCHANGED <<sessions, activeSessionId, sceneImage, productImage, sketchedImage,
                   history, historyIndex, prompt, originalDimensions, isLoading,
                   store, loaded, saves, requests, clock, nextGen>>

\* handleInstantStart up to its await of fetch; the link is rendered while
\* there is no scene and nothing is loading.  The handleSceneImageUpload it
\* will call is the one of the render that created it (deps: [sessions]).
HandleInstantStart ==
    /\ loaded
    /\ sceneImage = NoFile /\ ~isLoading
    /\ error' = NoError
    /\ uploads' = uploads \cup {[file |-> SampleFile, count |-> Len(sessions),
                                 call |-> Cardinality(uploads) + 1, stage |-> "fetch"]}
    /\ User("instantStart")
    /\ UNCHANGED <<sessions, activeSessionId, sceneImage, productImage, sketchedImage,
                   history, historyIndex, prompt, originalDimensions, isLoading,
                   store, loaded, saves, requests, clock, nextGen>>

\* (variant) a failed fetch also leaves the active project and the prompt
InstantStartFailsLeavingProject(u) ==
    /\ u \in uploads /\ u.stage = "fetch"
    /\ uploads' = uploads \ {u}
    /\ error' = SampleError
    /\ activeSessionId' = NoId
    /\ prompt' = ""
    /\ Async("instantStartFailed")
    /\ UNCHANGED <<sessions, sceneImage, productImage, sketchedImage,
                   history, historyIndex, originalDimensions, isLoading,
                   store, loaded, saves, requests, clock, nextGen>>

\* fetch rejects or the response is not ok: the catch branch
InstantStartFails(u) ==
    /\ u \in uploads /\ u.stage = "fetch"
    /\ uploads' = uploads \ {u}
    /\ error' = SampleError
    /\ Async("instantStartFailed")
    /\ UNCHANGED <<sessions, activeSessionId, sceneImage, productImage, sketchedImage,
                   history, historyIndex, prompt, originalDimensions, isLoading,
                   store, loaded, saves, requests, clock, nextGen>>

\* The sample arrived: handleSceneImageUpload(file) runs up to the assignment
\* of thumbnailReader.onload and its promise resolves, so the continuation
\* of handleInstantStart sets the sample prompt before the reader's load
\* event (a later task) creates the project.
InstantStartFetched(u) ==
    /\ u \in uploads /\ u.stage = "fetch"
    /\ uploads' = (uploads \ {u}) \cup {[u EXCEPT !.stage = "read"]}
    /\ prompt' = SamplePrompt
    /\ Async("instantStartFetched")
    /\ UNCHANGED <<sessions, activeSessionId, sceneImage, productImage, sketchedImage,
                   history, historyIndex, originalDimensions, isLoading, error,
                   store, loaded, saves, requests, clock, nextGen>>

----------------------------------------------------------------------------
(* Working-state inputs *)

\* the prompt input: rendered with a scene, disabled while isLoading
SetPrompt(p) ==
    /\ loaded
    /\ sceneImage # NoFile /\ ~isLoading
    /\ p # prompt
    /\ prompt' = p
    /\ User("setPrompt")
    /\ UNCHANGED <<sessions, activeSessionId, sceneImage, productImage, sketchedImage,
                   history, historyIndex, originalDimensions, isLoading, error,
                   store, loaded, saves, uploads, requests, clock, nextGen>>

HandleSaveSketch ==
    /\ loaded
    /\ ToolbarShown
    /\ sketchedImage' = SketchFile
    /\ User("saveSketch")
    /\ UNCHANGED <<sessions, activeSessionId, sceneImage, productImage,
                   history, historyIndex, prompt, originalDimensions, isLoading, error,
                   store, loaded, saves, uploads, requests, clock, nextGen>>

HandleRemoveSketch ==
    /\ loaded
    /\ sketchedImage # NoFile
    /\ sketchedImage' = NoFile
    /\ User("removeSketch")
    /\ UNCHANGED <<sessions, activeSessionId, sceneImage, productImage,
                   history, historyIndex, prompt, originalDimensions, isLoading, error,
                   store, loaded, saves, uploads, requests, clock, nextGen>>

HandleAddCustomProduct ==
    /\ loaded
    /\ ToolbarShown
    /\ productImage' = ProductFile
    /\ User("addProduct")
    /\ UNCHANGED <<sessions, activeSessionId, sceneImage, sketchedImage,
                   history, historyIndex, prompt, originalDimensions, isLoading, error,
                   store, loaded, saves, uploads, requests, clock, nextGen>>

HandleRemoveProduct ==
    /\ loaded
    /\ productImage # NoFile
    /\ productImage' = NoFile
    /\ User("removeProduct")
    /\ UNCHANGED <<sessions, activeSessionId, sceneImage, sketchedImage,
                   history, historyIndex, prompt, originalDimensions, isLoading, error,
                   store, loaded, saves, uploads, requests, clock, nextGen>>

----------------------------------------------------------------------------
(* History engine *)

\* (variant) undo without its guard
UndoIndexUnguarded(idx) == idx - 1

\* historyIndex >= 0 && setHistoryIndex(historyIndex - 1)
UndoIndex(idx) == IF idx >= 0 THEN idx - 1 ELSE idx

\* (variant) redo without its guard
RedoIndexUnguarded(idx, h) == idx + 1

\* historyIndex < history.length - 1 && setHistoryIndex(historyIndex + 1)
RedoIndex(idx, h) == IF idx < Len(h) - 1 THEN idx + 1 ELSE idx

HandleUndo ==
    /\ loaded
    /\ ToolbarShown
    /\ historyIndex' = UndoIndex(historyIndex)
    /\ User("undo")
    /\ UNCHANGED <<sessions, activeSessionId, sceneImage, productImage, sketchedImage,
                   history, prompt, originalDimensions, isLoading, error,
                   store, loaded, saves, uploads, requests, clock, nextGen>>

HandleRedo ==
    /\ loaded
    /\ ToolbarShown
    /\ historyIndex' = RedoIndex(historyIndex, history)
    /\ User("redo")
    /\ UNCHANGED <<sessions, activeSessionId, sceneImage, productImage, sketchedImage,
                   history, prompt, originalDimensions, isLoading, error,
                   store, loaded, saves, uploads, requests, clock, nextGen>>

HandleRevertToOriginal ==
    /\ loaded
    /\ ToolbarShown
    /\ history' = <<>>
    /\ historyIndex' = -1
    /\ sketchedImage' = NoFile
    /\ IF activeSessionId # NoId
       THEN /\ sessions' = SetGenerations(sessions, activeSessionId, <<>>)
            /\ SaveSessions(SetGenerations(sessions, activeSessionId, <<>>))
       ELSE UNCHANGED <<sessions, saves>>
    /\ User("revert")
    /\ UNCHANGED <<activeSessionId, sceneImage, productImage, prompt, originalDimensions,
                   isLoading, error, store, loaded, uploads, requests, clock, nextGen>>

----------------------------------------------------------------------------
(* Generation requests *)

\* (variant) the current generation is preferred to the sketch
ImageToProcessLatestFirst ==
    IF CurrentGeneratedImage(history, historyIndex) # NoFile
    THEN CurrentGeneratedImage(history, historyIndex)
    ELSE IF sketchedImage # NoFile THEN sketchedImage
         ELSE sceneImage

\* sketchedImage || currentGeneratedImage || sceneImage
ImageToProcess ==
    IF sketchedImage # NoFile THEN sketchedImage
    ELSE IF CurrentGeneratedImage(history, historyIndex) # NoFile
         THEN CurrentGeneratedImage(history, historyIndex)
         ELSE sceneImage

\* what the continuation of a request reads from the closure of the render
\* that started it
Request(kind) ==
    [kind |-> kind, n |-> nextGen + 1,
     image |-> IF kind = "rotate" THEN CurrentGeneratedImage(history, historyIndex)
               ELSE ImageToProcess,
     history |-> history, historyIndex |-> historyIndex,
     activeSessionId |-> activeSessionId]

\* executeGeneration(customPrompt, isScenery) up to the await of redesignRoom
ExecuteGeneration(kind, customPrompt) ==
    IF \/ ImageToProcess = NoFile \/ sceneImage = NoFile
       \/ customPrompt = "" \/ originalDimensions = NoDimensions
    THEN /\ error' = MissingDataError
         /\ UNCHANGED <<isLoading, requests, nextGen>>
    ELSE /\ isLoading' = TRUE
         /\ error' = NoError
         /\ requests' = requests \cup {Request(kind)}
         /\ nextGen' = nextGen + 1

\* the Generate button / Enter key: disabled while isLoading or without a prompt
HandleGenerate ==
    /\ loaded
    /\ sceneImage # NoFile /\ ~isLoading /\ prompt # ""
    /\ ExecuteGeneration("generate", prompt)
    /\ User("generate")
    /\ UNCHANGED <<sessions, activeSessionId, sceneImage, productImage, sketchedImage,
                   history, historyIndex, prompt, originalDimensions,
                   store, loaded, saves, uploads, clock>>

\* Change Scenery in the action bar, which is rendered under a scene
OpenSceneryModal ==
    /\ loaded
    /\ sceneImage # NoFile /\ ~isSceneryModalOpen
    /\ isSceneryModalOpen' = TRUE
    /\ Event("openScenery")
    /\ UNCHANGED <<sessions, activeSessionId, working, store, loaded, saves, uploads,
                   requests, clock, nextGen>>

\* the modal's close button or backdrop
CloseSceneryModal ==
    /\ loaded
    /\ isSceneryModalOpen
    /\ isSceneryModalOpen' = FALSE
    /\ Event("closeScenery")
    /\ UNCHANGED <<sessions, activeSessionId, working, store, loaded, saves, uploads,
                   requests, clock, nextGen>>

\* a preset of the scenery modal; the modal is rendered at the root of App
\* and stays open until a preset is chosen or it is closed
HandleSceneryChange ==
    /\ loaded
    /\ isSceneryModalOpen
    /\ ExecuteGeneration("scenery", SceneryPrompt)
    /\ isSceneryModalOpen' = FALSE
    /\ Event("scenery")
    /\ UNCHANGED <<sessions, activeSessionId, sceneImage, productImage, sketchedImage,
                   history, historyIndex, prompt, originalDimensions,
                   store, loaded, saves, uploads, clock>>

\* the rotate buttons: rendered over a history or sketch, disabled without a
\* current generated image
HandleRotateView ==
    /\ loaded
    /\ Len(history) > 0 \/ sketchedImage # NoFile
    /\ CurrentGeneratedImage(history, historyIndex) # NoFile
    /\ IF originalDimensions = NoDimensions
       THEN /\ error' = RotateMissingError
            /\ UNCHANGED <<isLoading, requests, nextGen>>
       ELSE /\ isLoading' = TRUE
            /\ error' = NoError
            /\ requests' = requests \cup {Request("rotate")}
            /\ nextGen' = nextGen + 1
    /\ User("rotate")
    /\ UNCHANGED <<sessions, activeSessionId, sceneImage, productImage, sketchedImage,
                   history, historyIndex, prompt, originalDimensions,
                   store, loaded, saves, uploads, clock>>

ResultFile(r) == IF r.kind = "rotate" THEN RotatedFile(r.n) ELSE GeneratedFile(r.n)

\* (variant) the cleanup clears the prompt after every kind of generation
RequestSucceedsClearingPrompt(r) ==
    /\ r \in requests
    /\ requests' = requests \ {r}
    /\ LET newHistory == AddImageToHistory(r.history, r.historyIndex, ResultFile(r)) IN
       /\ history' = newHistory
       /\ historyIndex' = Len(newHistory) - 1
       /\ IF r.activeSessionId # NoId
          THEN /\ sessions' = SetGenerations(sessions, r.activeSessionId, newHistory)
               /\ SaveSessions(SetGenerations(sessions, r.activeSessionId, newHistory))
          ELSE UNCHANGED <<sessions, saves>>
    /\ IF r.kind = "rotate"
       THEN UNCHANGED <<sketchedImage, productImage, prompt>>
       ELSE /\ sketchedImage' = NoFile
            /\ productImage' = NoFile
            /\ prompt' = ""
    /\ isLoading' = FALSE
    /\ Async("requestSucceeded")
    /\ UNCHANGED <<activeSessionId, sceneImage, originalDimensions, error,
                   store, loaded, uploads, clock, nextGen>>

\* the remote call returned an image: addImageToHistory and the cleanup
RequestSucceeds(r) ==
    /\ r \in requests
    /\ requests' = requests \ {r}
    /\ LET newHistory == AddImageToHistory(r.history, r.historyIndex, ResultFile(r)) IN
       /\ history' = newHistory
       /\ historyIndex' = Len(newHistory) - 1
       /\ IF r.activeSessionId # NoId
          THEN /\ sessions' = SetGenerations(sessions, r.activeSessionId, newHistory)
               /\ SaveSessions(SetGenerations(sessions, r.activeSessionId, newHistory))
          ELSE UNCHANGED <<sessions, saves>>
    /\ IF r.kind = "rotate"
       THEN UNCHANGED <<sketchedImage, productImage, prompt>>
       ELSE /\ sketchedImage' = NoFile
            /\ productImage' = NoFile
            /\ prompt' = IF r.kind = "scenery" THEN prompt ELSE ""
    /\ isLoading' = FALSE
    /\ Async("requestSucceeded")
    /\ UNCHANGED <<activeSessionId, sceneImage, originalDimensions, error,
                   store, loaded, uploads, clock, nextGen>>

\* (variant) a failed request runs the cleanup of a successful one
RequestFailsWithCleanup(r) ==
    /\ r \in requests
    /\ requests' = requests \ {r}
    /\ error' = IF r.kind = "rotate" THEN RotateError ELSE GenerateError
    /\ isLoading' = FALSE
    /\ sketchedImage' = NoFile
    /\ productImage' = NoFile
    /\ prompt' = ""
    /\ Async("requestFailed")
    /\ UNCHANGED <<sessions, activeSessionId, sceneImage,
                   history, historyIndex, originalDimensions,
                   store, loaded, saves, uploads, clock, nextGen>>

\* the remote call threw or returned no image: catch and finally
RequestFails(r) ==
    /\ r \in requests
    /\ requests' = requests \ {r}
    /\ error' = IF r.kind = "rotate" THEN RotateError ELSE GenerateError
    /\ isLoading' = FALSE
    /\ Async("requestFailed")
    /\ UNCHANGED <<sessions, activeSessionId, sceneImage, productImage, sketchedImage,
                   history, historyIndex, prompt, originalDimensions,
                   store, loaded, saves, uploads, clock, nextGen>>

----------------------------------------------------------------------------
(* Persistence *)

\* saveSessionsToLocalStorage(snapshot) after its await: localStorage.setItem
SaveCompletes(snapshot) ==
    /\ snapshot \in saves
    /\ saves' = saves \ {snapshot}
    /\ store' = Blob(snapshot)
    /\ Async("saved")
    /\ UNCHANGED <<sessions, activeSessionId, working, loaded, uploads, requests,
                   clock, nextGen>>

\* (variant) a failed save leaves the store empty
SaveFailsClearingStore(snapshot) ==
    /\ snapshot \in saves
    /\ saves' = saves \ {snapshot}
    /\ store' = NoBlob
    /\ Async("saveFailed")
    /\ UNCHANGED <<sessions, activeSessionId, working, loaded, uploads, requests,
                   clock, nextGen>>

\* saveSessionsToLocalStorage(snapshot) when fileToDataUrl rejects or setItem
\* throws (the quota is exceeded): the catch logs and the promise resolves
SaveFails(snapshot) ==
    /\ snapshot \in saves
    /\ saves' = saves \ {snapshot}
    /\ Async("saveFailed")
    /\ UNCHANGED <<sessions, activeSessionId, working, store, loaded, uploads, requests,
                   clock, nextGen>>

----------------------------------------------------------------------------

Next ==
    \/ LoadSessions
    \/ HandleNewProject
    \/ \E id \in SessionIds : HandleSelectSession(id)
    \/ \E id \in SessionIds : HandleDeleteSession(id)
    \/ \E f \in UploadFiles : HandleSceneImageUpload(f)
    \/ \E u \in uploads : UploadLoaded(u)
    \/ \E u \in uploads : UploadRejected(u)
    \/ HandleInstantStart
    \/ \E u \in uploads : InstantStartFails(u)
    \/ \E u \in uploads : InstantStartFetched(u)
    \/ \E p \in Prompts : SetPrompt(p)
    \/ HandleSaveSketch
    \/ HandleRemoveSketch
    \/ HandleAddCustomProduct
    \/ HandleRemoveProduct
    \/ HandleUndo
    \/ HandleRedo
    \/ HandleRevertToOriginal
    \/ HandleGenerate
    \/ OpenSceneryModal
    \/ CloseSceneryModal
    \/ HandleSceneryChange
    \/ HandleRotateView
    \/ \E r \in requests : RequestSucceeds(r)
    \/ \E r \in requests : RequestFails(r)

Spec == Init /\ [][Next]_vars

\* The same program with the store followed.
InitStore ==
    /\ sessions = <<>>
    /\ activeSessionId = NoId
    /\ sceneImage = NoFile
    /\ productImage = NoFile
    /\ sketchedImage = NoFile
    /\ history = <<>>
    /\ historyIndex = -1
    /\ prompt = ""
    /\ originalDimensions = NoDimensions
    /\ isLoading = FALSE
    /\ error = NoError
    /\ store \in InitialStores
    /\ loaded = FALSE
    /\ saves = {}
    /\ uploads = {}
    /\ requests = {}
    /\ clock = InitClock
    /\ nextGen = 0
    /\ budget = MaxStoreEvents
    /\ persisting = TRUE
    /\ geometry = NoGeometry
    /\ isSceneryModalOpen = FALSE
    /\ drawing = NoDrawing
    /\ lastOp = "init"

NextStore ==
    \/ Next
    \/ \E s \in saves : SaveCompletes(s)

SpecStore == InitStore /\ [][NextStore]_vars

----------------------------------------------------------------------------
(* storageService.ts on its own: the mount effect's load and the save it     *)
(* triggers, over the entries localStorage can hold when the program starts. *)

PlanFile == [name |-> "plan.png", type |-> "image/png", data |-> <<137>>]
ScanFile == [name |-> "scan", type |-> "", data |-> <<0, 255, 16, 63>>]

StorageScenes == {RoomPhoto, ScanFile}

StorageGenerations ==
    {<<>>, <<PlanFile>>, <<GeneratedFile(1), ProductFile, ScanFile>>}

StorageProjects ==
    {[id |-> i, name |-> i, timestamp |-> i,
      thumbnail |-> FileToDataUrl(f), sceneImage |-> f,
      originalDimensions |-> ImageDimensions(f), generations |-> g] :
        i \in 1..2, f \in StorageScenes, g \in StorageGenerations}

\* lists of 0, 1 and 2 projects
ProjectLists ==
    {<<>>} \cup {<<p>> : p \in StorageProjects}
           \cup {<<p, q>> : p \in StorageProjects, q \in StorageProjects}

\* data URLs dataURLtoFile throws on: no media type, no comma, a digit left
\* over, a character outside the base64 alphabet, padding in the middle
BadDataUrls ==
    {[mime |-> "", comma |-> TRUE, body |-> Base64(<<255, 216, 1>>)],
     [mime |-> "image/jpeg", comma |-> FALSE, body |-> <<>>],
     [mime |-> "image/jpeg", comma |-> TRUE, body |-> <<63, 61, 32, 1, 5>>],
     [mime |-> "image/jpeg", comma |-> TRUE, body |-> <<63, 99, 32, 1>>],
     [mime |-> "image/jpeg", comma |-> TRUE, body |-> <<63, Pad, 32, 1>>]}

\* the earlier run's entry with one image of its last project damaged
DamagedBlobs ==
    LET blob == SerializeAll(EarlierRun) IN
    {RawBlob("array", [blob EXCEPT ![Len(blob)].sceneImage.dataUrl = u]) :
        u \in BadDataUrls}
    \cup {RawBlob("array", [blob EXCEPT ![Len(blob)].generations[2].dataUrl = u]) :
        u \in BadDataUrls}

StorageInputs ==
    {NoBlob, RawBlob("empty", <<>>), RawBlob("malformed", <<>>), RawBlob("value", <<>>)}
    \cup {Blob(ps) : ps \in ProjectLists}
    \cup DamagedBlobs

InitStorage ==
    /\ sessions = <<>>
    /\ activeSessionId = NoId
    /\ sceneImage = NoFile
    /\ productImage = NoFile
    /\ sketchedImage = NoFile
    /\ history = <<>>
    /\ historyIndex = -1
    /\ prompt = ""
    /\ originalDimensions = NoDimensions
    /\ isLoading = FALSE
    /\ error = NoError
    /\ store \in StorageInputs
    /\ loaded = FALSE
    /\ saves = {}
    /\ uploads = {}
    /\ requests = {}
    /\ clock = InitClock
    /\ nextGen = 0
    /\ budget = 0
    /\ persisting = TRUE
    /\ geometry = NoGeometry
    /\ isSceneryModalOpen = FALSE
    /\ drawing = NoDrawing
    /\ lastOp = "init"

----------------------------------------------------------------------------
(* One project's image through redesignRoom, generation after generation:   *)
(* resizeImage pads the submitted image, the marker is drawn, the model      *)
(* answers with a square of the same layout, cropToOriginalAspectRatio takes *)
(* the content out and the result is the image submitted next.               *)

app == <<sessions, activeSessionId, sceneImage, productImage, sketchedImage,
         history, historyIndex, prompt, originalDimensions, isLoading, error,
         store, loaded, saves, uploads, requests, clock, nextGen, persisting,
         isSceneryModalOpen, drawing>>

\* the sizes getImageDimensions resolves with
OriginalSizes ==
    {[w |-> w, h |-> h] : w \in 0..MaxDimension, h \in 0..MaxDimension}
        \cup {[w |-> ImageDimensions(RoomPhoto).width, h |-> ImageDimensions(RoomPhoto).height]}

InitGeometry ==
    /\ sessions = <<>>
    /\ activeSessionId = NoId
    /\ sceneImage = NoFile
    /\ productImage = NoFile
    /\ sketchedImage = NoFile
    /\ history = <<>>
    /\ historyIndex = -1
    /\ prompt = ""
    /\ originalDimensions = NoDimensions
    /\ isLoading = FALSE
    /\ error = NoError
    /\ store = NoBlob
    /\ loaded = TRUE
    /\ saves = {}
    /\ uploads = {}
    /\ requests = {}
    /\ clock = InitClock
    /\ nextGen = 0
    /\ budget = MaxGeometryEvents
    /\ isSceneryModalOpen = FALSE
    /\ drawing = NoDrawing
    /\ persisting = FALSE
    /\ \E d \in OriginalSizes, S \in SquareSizes, p \in BOOLEAN :
          geometry = [NoGeometry EXCEPT !.originalWidth = d.w, !.originalHeight = d.h,
                                        !.S = S, !.image = d, !.productImage = p]
    /\ lastOp = "init"

\* a drop of the product on the scene
HandleSceneDropUnchecked(p) ==
    /\ geometry.step = "idle"
    /\ budget > 0 /\ budget' = budget - 1
    /\ IF ~geometry.productImage
       THEN geometry' = geometry /\ lastOp' = "dropIgnored"
       ELSE /\ geometry' = [geometry EXCEPT
                               !.dropCoordinates = RelativeDrop(p, geometry.image, DisplayBox)]
            /\ lastOp' = "dropAccepted"
    /\ UNCHANGED app

\* handleSceneDrop: a drop of the product on the scene
HandleSceneDrop(p) ==
    /\ geometry.step = "idle"
    /\ budget > 0 /\ budget' = budget - 1
    /\ IF ~geometry.productImage
       THEN geometry' = geometry /\ lastOp' = "dropIgnored"
       ELSE IF DropOutOfBounds(p, geometry.image, DisplayBox)
       THEN geometry' = geometry /\ lastOp' = "dropRejected"
       ELSE /\ geometry' = [geometry EXCEPT
                               !.dropCoordinates = RelativeDrop(p, geometry.image, DisplayBox)]
            /\ lastOp' = "dropAccepted"
    /\ UNCHANGED app

\* canvas.toDataURL of a canvas without area is "data:,", which dataURLtoFile
\* refuses ("Could not parse MIME type from data URL")
HasArea(size) == size.w > 0 /\ size.h > 0

\* DrawingModal's Save: the sketch, of the size of the modal's canvas, is the
\* image submitted next
DrawingModalSave ==
    /\ geometry.step = "idle"
    /\ budget > 0 /\ budget' = budget - 1
    /\ IF HasArea(SketchSize(geometry.image, DrawingContainer))
       THEN /\ geometry' = [geometry EXCEPT
                               !.image = SketchSize(geometry.image, DrawingContainer)]
            /\ lastOp' = "saveSketch"
       ELSE geometry' = geometry /\ lastOp' = "saveSketchFailed"
    /\ UNCHANGED app

\* redesignRoom, step 1: resizeImage(imageToProcess, MAX_DIMENSION)
ResizeImage ==
    /\ geometry.step = "idle"
    /\ budget > 0 /\ budget' = budget - 1
    /\ geometry' = [geometry EXCEPT !.padded = ResizeRect(geometry.image, geometry.S),
                                    !.marker = NoPoint, !.cropped = NoRect,
                                    !.step = "resized"]
    /\ lastOp' = "resizeImage"
    /\ UNCHANGED app

\* redesignRoom: if (productImage && dropCoordinates) the marker is drawn
DrawMarker ==
    /\ geometry.step = "resized"
    /\ geometry.productImage /\ geometry.dropCoordinates.set
    /\ geometry' = [geometry EXCEPT
                       !.marker = MarkerPoint(geometry.originalWidth, geometry.originalHeight,
                                              geometry.S, geometry.dropCoordinates),
                       !.step = "marked"]
    /\ lastOp' = "drawMarker"
    /\ UNCHANGED <<app, budget>>

\* redesignRoom: the answer is cropped; handleGenerate makes the result the
\* latest image and clears the product and the drop coordinates.  A crop
\* without area fails in dataURLtoFile, after the request, and clears nothing.
CropToOriginalAspectRatio ==
    /\ \/ geometry.step = "marked"
       \/ geometry.step = "resized"
          /\ ~(geometry.productImage /\ geometry.dropCoordinates.set)
    /\ LET rect == CropRect(geometry.originalWidth, geometry.originalHeight, geometry.S) IN
       IF HasArea(CroppedSize(rect))
       THEN /\ geometry' = [geometry EXCEPT !.cropped = rect, !.image = CroppedSize(rect),
                                            !.productImage = FALSE,
                                            !.dropCoordinates = NoPoint, !.step = "idle"]
            /\ lastOp' = "crop"
       ELSE /\ geometry' = [geometry EXCEPT !.cropped = rect, !.step = "idle"]
            /\ lastOp' = "cropFailed"
    /\ UNCHANGED <<app, budget>>

NextGeometry ==
    \/ \E p \in DropPoints : HandleSceneDrop(p)
    \/ DrawingModalSave
    \/ ResizeImage
    \/ DrawMarker
    \/ CropToOriginalAspectRatio

SpecGeometry == InitGeometry /\ [][NextGeometry]_vars

----------------------------------------------------------------------------
(* The sketch canvas on its own: the modal is open; the image loads (at the  *)
(* opening and after every resize of the window), strokes are drawn, undone  *)
(* and cleared.                                                              *)

InitDrawing ==
    /\ sessions = <<>>
    /\ activeSessionId = NoId
    /\ sceneImage = NoFile
    /\ productImage = NoFile
    /\ sketchedImage = NoFile
    /\ history = <<>>
    /\ historyIndex = -1
    /\ prompt = ""
    /\ originalDimensions = NoDimensions
    /\ isLoading = FALSE
    /\ error = NoError
    /\ store = NoBlob
    /\ loaded = TRUE
    /\ saves = {}
    /\ uploads = {}
    /\ requests = {}
    /\ clock = InitClock
    /\ nextGen = 0
    /\ budget = MaxDrawingEvents
    /\ persisting = FALSE
    /\ geometry = NoGeometry
    /\ isSceneryModalOpen = FALSE
    /\ drawing = NoDrawing
    /\ lastOp = "init"

\* a step of the modal: nothing of App changes
Modal(op) ==
    /\ budget > 0 /\ budget' = budget - 1 /\ lastOp' = op
    /\ UNCHANGED <<sessions, activeSessionId, working, store, loaded, saves, uploads,
                   requests, clock, nextGen, persisting, geometry, isSceneryModalOpen>>

\* initializeCanvas, img.onload: the background is drawn, the history is
\* reset and the first snapshot is saved
InitializeCanvas ==
    /\ drawing' = [SaveToHistory([drawing EXCEPT !.canvas = 0, !.history = <<>>,
                                                  !.historyIndex = -1])
                     EXCEPT !.initialised = TRUE]
    /\ Modal("initializeCanvas")

\* startDrawing, draw, stopDrawing: a completed stroke
StopDrawing ==
    /\ drawing' = SaveToHistory([drawing EXCEPT !.canvas = drawing.strokes + 1,
                                                !.strokes = drawing.strokes + 1])
    /\ Modal("stopDrawing")

\* (variant) undo without its guard
DrawingUndoUnguarded ==
    /\ drawing' = RestoreFromHistory([drawing EXCEPT !.historyIndex = @ - 1])
    /\ Modal("drawingUndo")

\* DrawingModal.handleUndo
DrawingUndo ==
    /\ drawing' = IF drawing.historyIndex > 0
                  THEN RestoreFromHistory([drawing EXCEPT !.historyIndex = @ - 1])
                  ELSE drawing
    /\ Modal("drawingUndo")

\* DrawingModal.handleClear
DrawingClear ==
    /\ drawing' = RestoreFromHistory([drawing EXCEPT !.historyIndex = 0])
    /\ Modal("drawingClear")

NextDrawing ==
    \/ InitializeCanvas
    \/ StopDrawing
    \/ DrawingUndo
    \/ DrawingClear

SpecDrawing == InitDrawing /\ [][NextDrawing]_vars

NextStorage ==
    \/ LoadSessions
    \/ \E s \in saves : SaveCompletes(s)
    \/ \E s \in saves : SaveFails(s)

SpecStorage == InitStorage /\ [][NextStorage]_vars

----------------------------------------------------------------------------
(* Properties *)

SessionIdsOf(ss) == {ss[i].id : i \in 1..Len(ss)}

\* the first project of ss with the given id
FirstWithId(ss, id) ==
    ss[CHOOSE i \in 1..Len(ss) : ss[i].id = id /\ \A j \in 1..(i - 1) : ss[j].id # id]

\* ss without the projects with the given id, order kept
Without(ss, id) == SelectSeq(ss, LAMBDA s : s.id # id)

\* C1: the history cursor is -1 or a valid index into the working generation
\* list, whatever handlers and continuations have run.
C1_CursorInRange == -1 <= historyIndex /\ historyIndex <= Len(history) - 1

\* an undo that took the cursor back to the original under a non-empty history
C1_Witness == lastOp = "undo" /\ historyIndex = -1 /\ Len(history) > 0

\* C2: an append truncates the working generations at the cursor, pushes the
\* new version and moves the cursor to it, in the working history and in the
\* active project's stored generations.
C2_AppendTruncatesAtCursor ==
    [][\A r \in requests : RequestSucceeds(r) =>
          /\ history' = SubSeq(history, 1, historyIndex + 1) \o <<ResultFile(r)>>
          /\ historyIndex' = Len(history') - 1
          /\ Len(sessions') = Len(sessions)
          /\ \A i \in 1..Len(sessions) :
                sessions[i].id = activeSessionId => sessions'[i].generations = history'
      ]_vars


\* C3: undo moves the cursor down by one unless it is -1, redo moves it up by
\* one unless it is at the tail, and neither touches the generation list, the
\* sketch, the product image, the prompt or the project collection.
C3_UndoRedoMoveOnlyCursor ==
    [][ /\ HandleUndo =>
            /\ historyIndex' = (IF historyIndex >= 0 THEN historyIndex - 1 ELSE historyIndex)
            /\ UNCHANGED <<history, sketchedImage, productImage, prompt, sessions>>
        /\ HandleRedo =>
            /\ historyIndex' = (IF historyIndex < Len(history) - 1
                                THEN historyIndex + 1 ELSE historyIndex)
            /\ UNCHANGED <<history, sketchedImage, productImage, prompt, sessions>>
      ]_vars

\* an undo from the tail of a three-version history while a product is selected
C3_Witness ==
    lastOp = "undo" /\ Len(history) = 3 /\ historyIndex = 1 /\ productImage = ProductFile

\* C4: revertToOriginal empties the working generations, puts the cursor at
\* -1, clears the sketch and empties the active project's stored generations;
\* every project's original image, the product image and the prompt stay.
C4_RevertToOriginal ==
    [][ HandleRevertToOriginal =>
            /\ history' = <<>>
            /\ historyIndex' = -1
            /\ sketchedImage' = NoFile
            /\ Len(sessions') = Len(sessions)
            /\ \A i \in 1..Len(sessions) :
                  /\ sessions[i].id = activeSessionId => sessions'[i].generations = <<>>
                  /\ sessions'[i].sceneImage = sessions[i].sceneImage
            /\ UNCHANGED <<sceneImage, productImage, prompt>>
      ]_vars

\* a revert of the stored project that had three generations, product selected
C4_Witness ==
    /\ lastOp = "revert" /\ activeSessionId = 1 /\ productImage = ProductFile
    /\ \E i \in 1..Len(sessions) : sessions[i].id = 1 /\ sessions[i].generations = <<>>

\* C5: selecting an id of the collection makes that project active, loads its
\* original image, dimensions and generations, puts the cursor on the last
\* generation (-1 when there is none) and empties sketch, product and prompt.
C5_SelectLoadsProject ==
    [][ \A id \in SessionIds :
          (HandleSelectSession(id) /\ id \in SessionIdsOf(sessions)) =>
            /\ activeSessionId' = id
            /\ sceneImage' = FirstWithId(sessions, id).sceneImage
            /\ originalDimensions' = FirstWithId(sessions, id).originalDimensions
            /\ history' = FirstWithId(sessions, id).generations
            /\ historyIndex' = Len(FirstWithId(sessions, id).generations) - 1
            /\ sketchedImage' = NoFile /\ productImage' = NoFile /\ prompt' = ""
      ]_vars

\* the stored project with three generations has been selected
C5_Witness ==
    lastOp = "selectSession" /\ activeSessionId = 1 /\ Len(history) = 3 /\ historyIndex = 2

\* C6: selecting an id the collection does not hold changes nothing: not the
\* active project, not the working state, not the collection.  The call made
\* by the mount effect is such a call (its handler still sees no project).
C6_SelectUnknownIsNoOp ==
    [][ /\ \A id \in SessionIds :
              (HandleSelectSession(id) /\ id \notin SessionIdsOf(sessions)) =>
                  UNCHANGED <<activeSessionId, working, sessions>>
        /\ LoadSessions => UNCHANGED <<activeSessionId, working>>
      ]_vars

\* an unknown id was selected while the stored project 1 was open
C6_Witness ==
    lastOp = "selectSession" /\ activeSessionId = 1 /\ budget = MaxEvents - 2

\* C7: delete removes the projects with the id and keeps the others in order;
\* if the deleted project was active the first remaining one is loaded, or the
\* workspace is emptied when none remains; otherwise the active project and the
\* working state stay.
C7_DeleteProject ==
    [][ \A id \in SessionIds : HandleDeleteSession(id) =>
          /\ sessions' = Without(sessions, id)
          /\ IF activeSessionId # id
             THEN UNCHANGED <<activeSessionId, working>>
             ELSE IF Len(Without(sessions, id)) > 0
             THEN /\ activeSessionId' = Without(sessions, id)[1].id
                  /\ sceneImage' = Without(sessions, id)[1].sceneImage
                  /\ originalDimensions' = Without(sessions, id)[1].originalDimensions
                  /\ history' = Without(sessions, id)[1].generations
                  /\ historyIndex' = Len(Without(sessions, id)[1].generations) - 1
                  /\ sketchedImage' = NoFile /\ productImage' = NoFile /\ prompt' = ""
             ELSE /\ activeSessionId' = NoId
                  /\ sceneImage' = NoFile /\ originalDimensions' = NoDimensions
                  /\ history' = <<>> /\ historyIndex' = -1
                  /\ sketchedImage' = NoFile /\ productImage' = NoFile /\ prompt' = ""
      ]_vars

\* the project just created (and active) was deleted; the newest stored one is open
C7_Witness ==
    /\ lastOp = "deleteSession" /\ clock = InitClock + 1 /\ budget = MaxEvents - 2
    /\ Len(sessions) = 2 /\ sessions[1].id = 2 /\ activeSessionId = 2
    /\ sceneImage = RoomPhoto

\* C8: after a delete, once no save is pending, the store holds no project that
\* the collection no longer holds.
C8_DeleteEvictsFromStore ==
    (lastOp = "deleteSession" /\ saves = {}) =>
        \A k \in 1..Len(store.sessions) : store.sessions[k].id \in SessionIdsOf(sessions)

\* C9: a successful upload puts one new project with no generations in front
\* of the collection, makes it active and resets the working state to it.
C9_CreateProject ==
    [][ \A u \in uploads : UploadLoaded(u) =>
          /\ Len(sessions') = Len(sessions) + 1
          /\ Tail(sessions') = sessions
          /\ sessions'[1].generations = <<>>
          /\ sessions'[1].sceneImage = u.file
          /\ activeSessionId' = sessions'[1].id
          /\ sceneImage' = u.file
          /\ originalDimensions' = ImageDimensions(u.file)
          /\ history' = <<>> /\ historyIndex' = -1
          /\ sketchedImage' = NoFile /\ productImage' = NoFile /\ prompt' = ""
      ]_vars

\* a third project was created in front of the two stored ones
C9_Witness ==
    /\ lastOp = "createProject" /\ Len(sessions) = 3
    /\ sessions[1].id = activeSessionId /\ sessions[1].generations = <<>>
    /\ sceneImage = RoomPhoto /\ historyIndex = -1

Immutable(s) ==
    [id |-> s.id, timestamp |-> s.timestamp, thumbnail |-> s.thumbnail,
     sceneImage |-> s.sceneImage, originalDimensions |-> s.originalDimensions]

Immutables(ss) == [i \in 1..Len(ss) |-> Immutable(ss[i])]

RECURSIVE IsSubSeq(_, _)
IsSubSeq(a, b) ==
    IF a = <<>> THEN TRUE
    ELSE IF b = <<>> THEN FALSE
    ELSE IF Head(a) = Head(b) THEN IsSubSeq(Tail(a), Tail(b))
    ELSE IsSubSeq(a, Tail(b))

IsGenerated(f) == f.name \in {"generated-scene.jpeg", "rotated-scene.jpeg"}

\* C10: once the collection is loaded, no step changes the id, timestamp,
\* thumbnail, original image or original dimensions of a project: a step
\* keeps them, removes projects or puts one new project in front; and no
\* project's original image is a generated image.
C10_OriginalsImmutable ==
    /\ [](\A i \in 1..Len(sessions) : ~IsGenerated(sessions[i].sceneImage))
    /\ [][ loaded =>
              \/ IsSubSeq(Immutables(sessions'), Immutables(sessions))
              \/ /\ Len(sessions') = Len(sessions) + 1
                 /\ Immutables(Tail(sessions')) = Immutables(sessions)
         ]_vars

\* a generated image has been appended to a project that keeps its original
C10_Witness ==
    /\ lastOp = "requestSucceeded"
    /\ \E i \in 1..Len(sessions) :
          /\ sessions[i].sceneImage = RoomPhoto
          /\ \E k \in 1..Len(sessions[i].generations) :
                sessions[i].generations[k] = GeneratedFile(1)

\* C11: a request that fails leaves the prompt, the sketch, the product image,
\* the generation list, the cursor and the project collection as they are (and
\* so did the handler that started it); it sets the error message and clears
\* the busy flag.
C11_FailureKeepsWorkingState ==
    [][ /\ \A r \in requests : RequestFails(r) =>
              /\ UNCHANGED <<prompt, sketchedImage, productImage, history, historyIndex,
                             sessions, activeSessionId, sceneImage, originalDimensions>>
              /\ error' \in {GenerateError, RotateError}
              /\ isLoading' = FALSE
        /\ (HandleGenerate \/ HandleSceneryChange \/ HandleRotateView) =>
              UNCHANGED <<prompt, sketchedImage, productImage, history, historyIndex,
                          sessions>>
      ]_vars

\* a Generate request with a prompt and a product has failed
C11_Witness ==
    /\ lastOp = "requestFailed" /\ error = GenerateError /\ ~isLoading
    /\ prompt # "" /\ productImage = ProductFile /\ requests = {}

\* C12: at most one generation request is in flight at any time.
C12_OneRequestInFlight == Cardinality(requests) <= 1

\* C20: no two projects of the collection have the same id.
C20_SessionIdsUnique ==
    \A i, j \in 1..Len(sessions) : sessions[i].id = sessions[j].id => i = j

SameFile(a, b) == a.name = b.name /\ a.data = b.data

SameProject(a, b) ==
    /\ a.id = b.id /\ a.name = b.name /\ a.timestamp = b.timestamp
    /\ a.thumbnail = b.thumbnail /\ a.originalDimensions = b.originalDimensions
    /\ SameFile(a.sceneImage, b.sceneImage)
    /\ Len(a.generations) = Len(b.generations)
    /\ \A k \in 1..Len(a.generations) : SameFile(a.generations[k], b.generations[k])

SameProjects(as, bs) ==
    Len(as) = Len(bs) /\ \A i \in 1..Len(as) : SameProject(as[i], bs[i])

\* C13: deserializing the serialization of a list of projects gives a list of
\* the same length and order in which every project has the same id, name,
\* timestamp, thumbnail and dimensions, an original image of the same name and
\* payload and generations of the same names and payloads in the same order:
\* for the entry a load reads, and for the entry a save has written.
C13_SerializationRoundTrip ==
    [][ /\ LoadSessions =>
              \A ps \in ProjectLists : store = Blob(ps) => SameProjects(sessions', ps)
        /\ \A snapshot \in saves : SaveCompletes(snapshot) =>
              /\ store'.json = "array" /\ AllDecodable(store'.sessions)
              /\ SameProjects(DeserializeAll(store'.sessions), snapshot)
      ]_vars

\* two projects were loaded, the first with three generations and an original
\* image that had no type, the second with none
C13_Witness ==
    /\ lastOp = "load" /\ Len(sessions) = 2
    /\ Len(sessions[1].generations) = 3 /\ Len(sessions[2].generations) = 0
    /\ sessions[1].sceneImage.data = ScanFile.data
    /\ sessions[1].sceneImage.type = "application/octet-stream"

\* C14: a load of an entry that is present but does not parse, or holds an
\* image that does not decode, returns no project and removes the entry; a
\* load without an entry returns no project and leaves the store as it is.
C14_CorruptStoreRecovery ==
    [][ LoadSessions =>
          /\ (store.present /\ (store.json # "array" \/ ~AllDecodable(store.sessions))) =>
                (sessions' = <<>> /\ ~store'.present)
          /\ ~store.present => (sessions' = <<>> /\ store' = store)
      ]_vars

\* C15: a save that fails leaves the store, the project collection and the
\* working state (the error message included) as they are, and is over.
C15_FailedSaveChangesNothing ==
    [][ \A snapshot \in saves : SaveFails(snapshot) =>
          /\ UNCHANGED <<store, sessions, activeSessionId, working>>
          /\ snapshot \notin saves'
      ]_vars

\* the save of two loaded projects has failed; the entry read is still there
C15_Witness ==
    /\ lastOp = "saveFailed" /\ saves = {}
    /\ Len(sessions) = 2 /\ store = Blob(sessions)

----------------------------------------------------------------------------
(* Geometry *)

Positive == geometry.originalWidth > 0 /\ geometry.originalHeight > 0
Center == [set |-> TRUE, x |-> Rat(1, 2), y |-> Rat(1, 2)]

\* C16: for positive original dimensions, the rectangle that
\* cropToOriginalAspectRatio takes out of the square is the rectangle
\* resizeImage drew the submitted image into, and it has the aspect ratio of
\* the original, on the first generation and on every later one.
C16_GeometryRoundTrip ==
    (Positive /\ geometry.cropped.set) =>
        /\ geometry.cropped = geometry.padded
        /\ Times(geometry.cropped.w, Whole(geometry.originalHeight))
             = Times(geometry.cropped.h, Whole(geometry.originalWidth))

\* C17: for positive original dimensions, the marker of the relative point
\* (1/2, 1/2) is drawn at (S/2, S/2).
C17_CenterMapsToCenter ==
    [][(DrawMarker /\ Positive /\ geometry.dropCoordinates = Center)
         => geometry'.marker = [set |-> TRUE, x |-> Rat(geometry.S, 2),
                                              y |-> Rat(geometry.S, 2)]]_vars

C17_Witness ==
    /\ lastOp = "drawMarker"
    /\ geometry.originalWidth > geometry.originalHeight /\ geometry.originalHeight > 0
    /\ geometry.dropCoordinates = Center
    /\ geometry.marker = [set |-> TRUE, x |-> Rat(geometry.S, 2), y |-> Rat(geometry.S, 2)]

\* C18: a drop outside the displayed content rectangle changes neither the
\* stored drop coordinates nor the marker, stored drop coordinates always lie
\* within the content rectangle, and a marker is only ever drawn for stored
\* coordinates.
InUnit(a) == ~Less(a, Whole(0)) /\ ~Less(Whole(1), a)

C18_OutOfBoundsDropRejected ==
    [][/\ \A p \in DropPoints :
            (HandleSceneDrop(p) /\ DropOutOfBounds(p, geometry.image, DisplayBox))
                => /\ geometry'.dropCoordinates = geometry.dropCoordinates
                   /\ geometry'.marker = geometry.marker
       /\ (HasArea(geometry'.image) /\ geometry'.dropCoordinates.set)
            => /\ InUnit(geometry'.dropCoordinates.x)
               /\ InUnit(geometry'.dropCoordinates.y)
       /\ geometry'.marker # geometry.marker /\ geometry'.marker.set
            => geometry.dropCoordinates.set]_vars

C18_Witness ==
    /\ lastOp = "dropRejected"
    /\ geometry.dropCoordinates.set
    /\ ~geometry.marker.set

\* C19: with an original width or height of 0 no content rectangle is
\* computed: nothing is padded, marked or cropped.
C19_ZeroDimensionsRejected ==
    ~Positive =>
        /\ ~geometry.padded.set
        /\ ~geometry.marker.set
        /\ ~geometry.cropped.set
        /\ geometry.step = "idle"

----------------------------------------------------------------------------
(* Generation flow *)

\* C21: a successful generation (Generate or scenery change) clears the sketch
\* and the product image; it clears the prompt when it was started by
\* Generate and leaves the prompt as it is when it was a scenery change.
C21_CleanupAfterGeneration ==
    [][\A r \in requests :
          (RequestSucceeds(r) /\ r.kind # "rotate") =>
              /\ sketchedImage' = NoFile
              /\ productImage' = NoFile
              /\ r.kind = "generate" => prompt' = ""
              /\ r.kind = "scenery" => prompt' = prompt
      ]_vars

\* a scenery change has succeeded under a typed prompt
C21_Witness ==
    /\ lastOp = "requestSucceeded"
    /\ prompt # "" /\ sketchedImage = NoFile /\ productImage = NoFile
    /\ Len(history) > 0 /\ history[Len(history)].name = "generated-scene.jpeg"

----------------------------------------------------------------------------
(* Instant start *)

\* C22: when the fetch of the sample fails, the failure becomes the error
\* message and the pending start is over, so no project is created for it;
\* neither the click nor the failure changes the project collection, the
\* active project or the rest of the working state.
C22_SampleFetchFailure ==
    [][ /\ \A u \in uploads : InstantStartFails(u) =>
              /\ error' = SampleError
              /\ u \notin uploads' /\ uploads' \subseteq uploads
              /\ UNCHANGED <<sessions, activeSessionId, sceneImage, productImage,
                             sketchedImage, history, historyIndex, prompt,
                             originalDimensions, isLoading>>
        /\ HandleInstantStart =>
              UNCHANGED <<sessions, activeSessionId, sceneImage, productImage,
                          sketchedImage, history, historyIndex, prompt,
                          originalDimensions, isLoading>>
      ]_vars

\* the fetch failed after the user had opened a stored project
C22_Witness ==
    /\ lastOp = "instantStartFailed" /\ error = SampleError
    /\ activeSessionId # NoId /\ sceneImage # NoFile /\ uploads = {}

\* C28: when the sample project has been created and made active, the prompt
\* holds the sample instruction.
C28_SamplePromptKept ==
    (lastOp = "createProject" /\ sceneImage = SampleFile /\ activeSessionId # NoId)
        => prompt = SamplePrompt

----------------------------------------------------------------------------
(* Startup *)

\* C23: when the load of a store that holds at least one project has
\* completed, the first project of the loaded collection is the active one
\* and the working scene, dimensions, history and cursor are that project's.
C23_StartupActivatesMostRecent ==
    (lastOp = "load" /\ Len(sessions) > 0) =>
        /\ activeSessionId = sessions[1].id
        /\ sceneImage = sessions[1].sceneImage
        /\ originalDimensions = sessions[1].originalDimensions
        /\ history = sessions[1].generations
        /\ historyIndex = Len(sessions[1].generations) - 1

----------------------------------------------------------------------------
(* Submission *)

\* C24: Generate and a scenery change submit the pending sketch if there is
\* one, otherwise the generation at the cursor if the cursor is >= 0,
\* otherwise the original image; they submit only when that image, the
\* original image, a non-empty prompt and the original dimensions are all
\* present, and otherwise set the error, make no request and change nothing
\* else of the projects and the working state.
C24_BaseImageAndPreconditions ==
    [][\A kind \in {"generate", "scenery"} :
          LET started == \/ kind = "generate" /\ HandleGenerate
                         \/ kind = "scenery" /\ HandleSceneryChange
              customPrompt == IF kind = "generate" THEN prompt ELSE SceneryPrompt
              base == IF sketchedImage # NoFile THEN sketchedImage
                      ELSE IF historyIndex >= 0 THEN history[historyIndex + 1]
                      ELSE sceneImage
              ready == /\ base # NoFile /\ sceneImage # NoFile
                       /\ customPrompt # "" /\ originalDimensions # NoDimensions
          IN  started =>
                IF ready
                THEN \E r \in requests' :
                        /\ r \notin requests /\ requests' = requests \cup {r}
                        /\ r.image = base /\ r.kind = kind
                ELSE /\ error' = MissingDataError
                     /\ UNCHANGED <<requests, nextGen, sessions, activeSessionId,
                                    sceneImage, productImage, sketchedImage, history,
                                    historyIndex, prompt, originalDimensions, isLoading>>
      ]_vars

\* a preset was chosen after the scene had been closed under the open modal
C24_Witness ==
    /\ lastOp = "scenery" /\ error = MissingDataError
    /\ sceneImage = NoFile /\ requests = {}

----------------------------------------------------------------------------
(* Marker placement *)

Leq(a, b) == a.d # 0 /\ b.d # 0 /\ a.n * b.d <= b.n * a.d

\* C25: for positive original dimensions and a relative point in the unit
\* square, the marker offset + relative * contentDimension lies inside the
\* content rectangle, whose offsets are >= 0 and which lies within the
\* S x S square; for 1600 x 900, S = 1024 and (1/10, 1/10) the marker is
\* (102.4, 281.6).
C25_MarkerInsideContent ==
    [][(/\ DrawMarker /\ Positive
        /\ Leq(Whole(0), geometry.dropCoordinates.x) /\ Leq(geometry.dropCoordinates.x, Whole(1))
        /\ Leq(Whole(0), geometry.dropCoordinates.y) /\ Leq(geometry.dropCoordinates.y, Whole(1)))
       => LET content == ContentSize(geometry.originalWidth, geometry.originalHeight, geometry.S)
              offsetX == Half(Minus(Whole(geometry.S), content.w))
              offsetY == Half(Minus(Whole(geometry.S), content.h))
              m == geometry'.marker
          IN  /\ m.set
              /\ Leq(Whole(0), offsetX) /\ Leq(Whole(0), offsetY)
              /\ Leq(Plus(offsetX, content.w), Whole(geometry.S))
              /\ Leq(Plus(offsetY, content.h), Whole(geometry.S))
              /\ Leq(offsetX, m.x) /\ Leq(m.x, Plus(offsetX, content.w))
              /\ Leq(offsetY, m.y) /\ Leq(m.y, Plus(offsetY, content.h))
              /\ (/\ geometry.originalWidth = 1600 /\ geometry.originalHeight = 900
                  /\ geometry.S = 1024
                  /\ geometry.dropCoordinates.x = Rat(1, 10)
                  /\ geometry.dropCoordinates.y = Rat(1, 10))
                 => m.x = Rat(1024, 10) /\ m.y = Rat(2816, 10)
      ]_vars

\* the marker of (1/10, 1/10) on the 1600 x 900 image has been drawn
C25_Witness ==
    /\ lastOp = "drawMarker"
    /\ geometry.originalWidth = 1600 /\ geometry.originalHeight = 900 /\ geometry.S = 1024
    /\ geometry.dropCoordinates = [set |-> TRUE, x |-> Rat(1, 10), y |-> Rat(1, 10)]
    /\ geometry.marker = [set |-> TRUE, x |-> Rat(1024, 10), y |-> Rat(2816, 10)]

----------------------------------------------------------------------------
(* Persistence *)

\* C26: when the last pending save has completed and the collection in
\* memory is not empty, the store holds the serialization of that collection
\* (not that of an earlier snapshot).
C26_StoreConverges ==
    (loaded /\ lastOp = "saved" /\ saves = {} /\ Len(sessions) > 0)
        => store = Blob(sessions)

----------------------------------------------------------------------------
(* Working state and active project *)

\* C27: the working state mirrors the active project: while a project is
\* active, the working scene image, dimensions and history are that
\* project's original image, dimensions and stored generations; while none
\* is active they are null and empty.
C27_WorkingStateMirrorsActive ==
    IF activeSessionId # NoId
    THEN /\ FindSession(sessions, activeSessionId) # 0
         /\ LET s == sessions[FindSession(sessions, activeSessionId)] IN
            /\ sceneImage = s.sceneImage
            /\ originalDimensions = s.originalDimensions
            /\ history = s.generations
    ELSE /\ sceneImage = NoFile
         /\ originalDimensions = NoDimensions
         /\ history = <<>>

----------------------------------------------------------------------------
(* End of a request *)

\* C29: when the remote call of a request returns (with an image, without
\* one, or by throwing), the busy flag is cleared; and when it returned an
\* image, exactly one new version has been appended: the working history is
\* the versions up to the cursor followed by the new image, one longer.
C29_RequestEnds ==
    [][\A r \in requests :
          /\ (RequestSucceeds(r) \/ RequestFails(r)) => isLoading' = FALSE
          /\ RequestSucceeds(r) =>
                /\ Len(history') = historyIndex + 2
                /\ history'[Len(history')] = ResultFile(r)
                /\ \A k \in 1..(Len(history') - 1) : history'[k] = history[k]
      ]_vars

----------------------------------------------------------------------------
(* Sketch canvas *)

\* C30: once the canvas has been initialised, the index of the sketch history
\* stays within 0 .. length - 1; undo moves it down by one but never below
\* snapshot 0, clear returns to snapshot 0, neither changes the snapshots,
\* and a completed stroke keeps the snapshots up to the index, discards the
\* ones after it and puts the new snapshot last.
C30_SketchHistoryInRange ==
    /\ [](drawing.initialised =>
            /\ 0 <= drawing.historyIndex
            /\ drawing.historyIndex <= Len(drawing.history) - 1
            /\ drawing.history[1] = 0)
    /\ [][drawing.initialised =>
            /\ DrawingUndo =>
                 /\ drawing'.historyIndex =
                        IF drawing.historyIndex = 0 THEN 0 ELSE drawing.historyIndex - 1
                 /\ drawing'.history = drawing.history
            /\ DrawingClear =>
                 /\ drawing'.historyIndex = 0
                 /\ drawing'.canvas = 0
                 /\ drawing'.history = drawing.history
            /\ StopDrawing =>
                 /\ drawing'.history =
                        SubSeq(drawing.history, 1, drawing.historyIndex + 1)
                            \o <<drawing'.canvas>>
                 /\ drawing'.historyIndex = drawing.historyIndex + 1
         ]_vars

\* a stroke after a clear has discarded the two strokes before it
C30_Witness ==
    /\ lastOp = "stopDrawing" /\ drawing.initialised
    /\ drawing.history = <<0, 3>> /\ drawing.historyIndex = 1

====
